---- MODULE Spec2Model ----
(***************************************************************************)
(* The resume analyzer of src/main.py as a state machine.                  *)
(*                                                                         *)
(* The program is one Streamlit script: every user interaction re-runs it  *)
(* from the top with the widgets' current values, st.session_state is the  *)
(* only state that survives a re-run, a button is true only in the re-run  *)
(* its click caused, and an exception that escapes the script ends the     *)
(* re-run where it was raised (what the script had already put on the page *)
(* stays, nothing after it is rendered).  A re-run that reaches            *)
(* call_groq_chat blocks there: pc tells which call the script waits in.   *)
(*                                                                         *)
(* Texts returned by the model are sequences of one-character strings, so  *)
(* that the score pattern and the ASCII normalisation of the export are    *)
(* computed on them as the code computes them; "NL" is the newline,        *)
(* "E_ACUTE" and "EM_DASH" are the two non-ASCII characters followed.      *)
(***************************************************************************)
EXTENDS Integers, Sequences, FiniteSets, TLC

VARIABLES
    uploaded_file,    \* st.file_uploader's value (line 85)
    job_description,  \* st.text_area's value (line 86)
    chat_input,       \* st.text_input(key="chat_input")'s value (line 128)
    profile,          \* the seven inputs of the Generate tab (lines 160-166)
    session,          \* st.session_state
    pc,               \* "ready", or the call_groq_chat the script waits in
    local,            \* the waiting script's local variables
    page,             \* what the last finished re-run rendered
    uploader_notice,  \* the file uploader's own message in the last interaction
    delivered         \* the file the last interaction handed to the browser

vars == <<uploaded_file, job_description, chat_input, profile, session, pc,
          local, page, uploader_notice, delivered>>

\* The longest chat history the model follows.
MaxChat == 2

----------------------------------------------------------------------------
\* Inputs

NoFile == [suffix |-> "", payload |-> "", parts |-> <<>>]

\* A file is its name's suffix, what its bytes really are, and the text of its
\* pages (PDF) or paragraphs (DOCX); "" is a page or paragraph without text.
Files ==
    { [suffix |-> ".pdf",  payload |-> "pdf",  parts |-> <<"p1", "", "p2">>],
      [suffix |-> ".docx", payload |-> "docx", parts |-> <<"d1", "">>],
      [suffix |-> ".docx", payload |-> "junk", parts |-> <<>>],
      [suffix |-> ".txt",  payload |-> "text", parts |-> <<"t1">>] }

JobDescriptions == {"", "J1"}

Questions == {"", "Q1", "Q2"}

Profiles ==
    { [name |-> "", email |-> "", phone |-> "", skills |-> "",
       experience |-> "", education |-> "", job_role |-> ""],
      [name |-> "Jane Doe", email |-> "j@x", phone |-> "1", skills |-> "Go, Rust",
       experience |-> "e", education |-> "u", job_role |-> "Backend Engineer"] }

\* What the remote model may answer, by the template of the prompt.
AnalysisTexts ==
    { <<"8", "7", "/", "1", "0", "0">>,
      <<"f", "i", "t", "EM_DASH", "NL", "E_ACUTE">>,
      <<"1", "5", "0", "/", "1", "0", "0">>,
      <<"2", "1", "0", "0">> }

ChatTexts == { <<"o", "k">> }

ResumeTexts == { <<"c", "v", "E_ACUTE">> }

----------------------------------------------------------------------------
\* File processing

Truthy(s) == s # ""

\* "\n".join(page.extract_text() for page in pdf.pages if page.extract_text())
extract_text_from_pdf(file) ==
    IF file.payload = "pdf"
    THEN [ok |-> TRUE, text |-> SelectSeq(file.parts, Truthy)]
    ELSE [ok |-> FALSE, text |-> <<>>]

\* "\n".join(p.text for p in doc.paragraphs)
extract_text_from_docx(file) ==
    IF file.payload = "docx"
    THEN [ok |-> TRUE, text |-> file.parts]
    ELSE [ok |-> FALSE, text |-> <<>>]

\* unicodedata.normalize('NFKD', c): an accented letter becomes the letter and a
\* combining mark; the em dash has no decomposition.
NFKD(c) == IF c = "E_ACUTE" THEN <<"e", "COMBINING_ACUTE">> ELSE <<c>>

IsAscii(c) == c \notin {"E_ACUTE", "EM_DASH", "COMBINING_ACUTE"}

RECURSIVE normalize(_)
normalize(content) ==
    IF content = <<>> THEN <<>>
    ELSE NFKD(Head(content)) \o normalize(Tail(content))

\* content.split('\n')
RECURSIVE split(_)
split(content) ==
    IF \A i \in 1..Len(content) : content[i] # "NL" THEN <<content>>
    ELSE LET k == CHOOSE i \in 1..Len(content) :
                      content[i] = "NL" /\ \A j \in 1..(i - 1) : content[j] # "NL"
         IN <<SubSeq(content, 1, k - 1)>> \o split(SubSeq(content, k + 1, Len(content)))

\* The rendered document, as the lines handed to multi_cell.
generate_pdf(content) == split(SelectSeq(normalize(content), IsAscii))

----------------------------------------------------------------------------
\* Prompts and the remote call

get_resume_analysis_prompt(resume_text, jd) ==
    [template |-> "analysis", resume_text |-> resume_text, job_description |-> jd]

get_resume_gen_prompt(user_info, job_role) ==
    [template |-> "generate", user_info |-> user_info, job_role |-> job_role]

get_chat_prompt(resume_text, jd, analysis, user_input) ==
    [template |-> "chat", resume_text |-> resume_text, job_description |-> jd,
     analysis |-> analysis, user_input |-> user_input]

NoPrompt == [template |-> "none"]

NoReply == [prompt |-> NoPrompt, text |-> <<>>]

Completions(prompt) ==
    CASE prompt.template = "analysis" -> AnalysisTexts
      [] prompt.template = "chat"     -> ChatTexts
      [] OTHER                        -> ResumeTexts

\* The outcomes of one call: the service's answer to this prompt, or the
\* exception the client raises.
call_groq_chat(prompt) ==
    { [ok |-> TRUE, content |-> [prompt |-> prompt, text |-> t]] : t \in Completions(prompt) }
        \cup { [ok |-> FALSE, content |-> NoReply] }

----------------------------------------------------------------------------
\* The score: re.search(r"(\d{1,3})\s?/?100", analysis), then int(match.group(1))

Digits == {"0", "1", "2", "3", "4", "5", "6", "7", "8", "9"}

DigitValue(c) ==
    CASE c = "0" -> 0 [] c = "1" -> 1 [] c = "2" -> 2 [] c = "3" -> 3 [] c = "4" -> 4
      [] c = "5" -> 5 [] c = "6" -> 6 [] c = "7" -> 7 [] c = "8" -> 8 [] c = "9" -> 9

IsSpace(c) == c \in {" ", "NL"}

\* text[at], or "" past the end of the text.
CharAt(text, at) == IF at \in 1..Len(text) THEN text[at] ELSE ""

\* The literal 100 at position at.
Literal100(text, at) ==
    CharAt(text, at) = "1" /\ CharAt(text, at + 1) = "0" /\ CharAt(text, at + 2) = "0"

\* \s?/?100 matches at position at: each optional item is taken or skipped.
TailMatches(text, at) ==
    \E ws \in {0, 1}, slash \in {0, 1} :
        /\ ws = 1 => IsSpace(CharAt(text, at))
        /\ slash = 1 => CharAt(text, at + ws) = "/"
        /\ Literal100(text, at + ws + slash)

\* \d{k} at position at, then the tail.
MatchesWidth(text, at, k) ==
    /\ \A i \in at..(at + k - 1) : CharAt(text, i) \in Digits
    /\ TailMatches(text, at + k)

\* The width of the group of the match that starts at position at, 0 when none
\* starts there: \d{1,3} is greedy, the widest group is tried first.
GroupWidth(text, at) ==
    IF MatchesWidth(text, at, 3) THEN 3
    ELSE IF MatchesWidth(text, at, 2) THEN 2
    ELSE IF MatchesWidth(text, at, 1) THEN 1
    ELSE 0

RECURSIVE int(_)
int(digits) ==
    IF digits = <<>> THEN 0
    ELSE 10 * int(SubSeq(digits, 1, Len(digits) - 1)) + DigitValue(digits[Len(digits)])

NoMatch == [found |-> FALSE, score |-> 0]

\* The leftmost match from position at on.
RECURSIVE search(_, _)
search(text, at) ==
    IF at > Len(text) THEN NoMatch
    ELSE LET k == GroupWidth(text, at)
         IN IF k > 0
            THEN [found |-> TRUE, score |-> int(SubSeq(text, at, at + k - 1))]
            ELSE search(text, at + 1)

re_search(text) == search(text, 1)

\* st.progress(value) takes 0.0 <= value <= 1.0 and raises otherwise; the value is
\* score / 100.
ProgressAccepts(score) == 0 <= score /\ score <= 100

----------------------------------------------------------------------------
\* st.session_state: the keys present, and their values

EmptySession ==
    [present |-> {}, resume_text |-> <<>>, job_description |-> "",
     analysis |-> NoReply, chat_history |-> <<>>]

\* Lines 100-103 without line 103: the chat history survives a new analysis.
StoreAnalysis_KeepsChat(sess, resume_text, jd, analysis) ==
    [present |-> sess.present \cup {"resume_text", "job_description", "analysis", "chat_history"},
     resume_text |-> resume_text,
     job_description |-> jd,
     analysis |-> analysis,
     chat_history |-> sess.chat_history]

\* Lines 100-103 without line 100: the text of the first resume analysed stays.
StoreAnalysis_StaleResume(sess, resume_text, jd, analysis) ==
    [present |-> sess.present \cup {"resume_text", "job_description", "analysis", "chat_history"},
     resume_text |-> IF "resume_text" \in sess.present THEN sess.resume_text ELSE resume_text,
     job_description |-> jd,
     analysis |-> analysis,
     chat_history |-> <<>>]

\* Lines 100-103.
StoreAnalysis(sess, resume_text, jd, analysis) ==
    [present |-> sess.present \cup {"resume_text", "job_description", "analysis", "chat_history"},
     resume_text |-> resume_text,
     job_description |-> jd,
     analysis |-> analysis,
     chat_history |-> <<>>]

\* Line 149 with insert(0, ...) for append(...).
AppendChat_Prepends(sess, user_input, response) ==
    [sess EXCEPT !.chat_history = <<<<user_input, response>>>> \o @]

\* Line 149.
AppendChat(sess, user_input, response) ==
    [sess EXCEPT !.chat_history = Append(@, <<user_input, response>>)]

----------------------------------------------------------------------------
\* The page a re-run leaves behind

RECURSIVE reversed(_)
reversed(s) == IF s = <<>> THEN <<>> ELSE Append(reversed(Tail(s)), Head(s))

NoDocument == [file_name |-> "", mime |-> "", data |-> <<>>]

\* The re-run ended at `stop`: "end" is the end of the script, "extract" the
\* extractor's exception (lines 91, 93), every other value the call_groq_chat that
\* raised (lines 97, 148, 179).  `output` is resume_output, when line 179 returned.
Render(sess, stop, output) ==
    LET has      == "analysis" \in sess.present
        results  == has /\ stop \notin {"extract", "analyze_call"}        \* line 106
        match    == IF results THEN re_search(sess.analysis.text) ELSE NoMatch
        raised   == match.found /\ ~ProgressAccepts(match.score)         \* line 113
        exporter == results /\ ~raised                                   \* lines 116-129
        history  == exporter /\ stop # "chat_call"                       \* lines 151-154
        tab2     == stop \notin {"extract", "analyze_call", "chat_call"}
                        /\ ~raised                                       \* lines 158-168
        result   == tab2 /\ stop = "end" /\ output # NoReply             \* lines 181-190
    IN [error |->
            CASE stop = "extract" -> "ExtractionError"
              [] stop \in {"analyze_call", "chat_call", "gen_call"} -> "GenerationServiceError"
              [] raised -> "StreamlitAPIException"
              [] OTHER -> "none",
        review |-> IF results THEN sess.analysis.text ELSE <<>>,
        review_shown |-> results,
        score |-> IF match.found /\ ~raised THEN match ELSE NoMatch,
        feedback_pdf |->
            IF exporter
            THEN [file_name |-> "resume_feedback.pdf", mime |-> "application/pdf",
                  data |-> generate_pdf(sess.analysis.text)]
            ELSE NoDocument,
        chat |-> exporter,
        history |-> IF history /\ "chat_history" \in sess.present
                    THEN reversed(sess.chat_history) ELSE <<>>,
        generate_tab |-> tab2,
        resume_output |-> IF result THEN output.text ELSE <<>>,
        resume_pdf |->
            IF result
            THEN [file_name |-> "generated_resume.pdf", mime |-> "application/pdf",
                  data |-> generate_pdf(output.text)]
            ELSE NoDocument]

NoLocal == [resume_text |-> <<>>, job_description |-> "", prompt |-> NoPrompt]

----------------------------------------------------------------------------
\* The file uploader: type=["pdf", "docx"] (line 85)

\* Line 85 without type=[...]: the uploader takes every file.
Accepts_Any(file) == TRUE

Accepts(file) == file.suffix \in {".pdf", ".docx"}

Init ==
    /\ uploaded_file = NoFile
    /\ job_description = ""
    /\ chat_input = ""
    /\ profile \in { p \in Profiles : p.name = "" }
    /\ session = EmptySession
    /\ pc = "ready"
    /\ local = NoLocal
    /\ page = Render(EmptySession, "end", NoReply)
    /\ uploader_notice = "none"
    /\ delivered = NoDocument

\* A re-run in which no button is true.
Rerun ==
    /\ page' = Render(session, "end", NoReply)
    /\ UNCHANGED <<session, pc, local>>

\* The user offers a file to the uploader.  A file of another type is refused by
\* the widget: its value stays and the script does not re-run.
OfferFile(file) ==
    /\ pc = "ready"
    /\ IF Accepts(file)
       THEN /\ uploaded_file' = file
            /\ uploader_notice' = "none"
            /\ Rerun
       ELSE /\ uploader_notice' = "UnsupportedFormat"
            /\ UNCHANGED <<uploaded_file, session, pc, local, page>>
    /\ delivered' = NoDocument
    /\ UNCHANGED <<job_description, chat_input, profile>>

RemoveFile ==
    /\ pc = "ready"
    /\ uploaded_file # NoFile
    /\ uploaded_file' = NoFile
    /\ uploader_notice' = "none"
    /\ Rerun
    /\ delivered' = NoDocument
    /\ UNCHANGED <<job_description, chat_input, profile>>

EditJobDescription(jd) ==
    /\ pc = "ready"
    /\ jd # job_description
    /\ job_description' = jd
    /\ Rerun
    /\ delivered' = NoDocument
    /\ uploader_notice' = "none"
    /\ UNCHANGED <<uploaded_file, chat_input, profile>>

EditChatInput(question) ==
    /\ pc = "ready"
    /\ page.chat
    /\ question # chat_input
    /\ chat_input' = question
    /\ Rerun
    /\ delivered' = NoDocument
    /\ uploader_notice' = "none"
    /\ UNCHANGED <<uploaded_file, job_description, profile>>

EditProfile(p) ==
    /\ pc = "ready"
    /\ page.generate_tab
    /\ p # profile
    /\ profile' = p
    /\ Rerun
    /\ delivered' = NoDocument
    /\ uploader_notice' = "none"
    /\ UNCHANGED <<uploaded_file, job_description, chat_input>>

----------------------------------------------------------------------------
\* Tab 1: Analyze Now (lines 88-103)

\* Lines 90-93.
Extract(file) ==
    IF file.suffix = ".pdf" THEN extract_text_from_pdf(file)
    ELSE extract_text_from_docx(file)

\* Lines 90-97 with the old analysis and chat history dropped once the extractor
\* has run.
AnalyzeNow_DiscardsAtExtract ==
    /\ pc = "ready"
    /\ uploaded_file # NoFile /\ Truthy(job_description)
    /\ LET extracted == Extract(uploaded_file)
       IN IF extracted.ok
          THEN /\ pc' = "analyze_call"
               /\ local' = [resume_text |-> extracted.text,
                            job_description |-> job_description,
                            prompt |-> get_resume_analysis_prompt(extracted.text,
                                                                  job_description)]
               /\ session' = [session EXCEPT !.present = @ \ {"analysis"},
                                             !.analysis = NoReply,
                                             !.chat_history = <<>>]
               /\ UNCHANGED page
          ELSE /\ page' = Render(session, "extract", NoReply)
               /\ UNCHANGED <<session, pc, local>>
    /\ uploader_notice' = "none"
    /\ delivered' = NoDocument
    /\ UNCHANGED <<uploaded_file, job_description, chat_input, profile>>

\* The click, up to the call of line 97.
AnalyzeNow ==
    /\ pc = "ready"
    /\ uploaded_file # NoFile /\ Truthy(job_description)
    /\ LET extracted == Extract(uploaded_file)
       IN IF extracted.ok
          THEN /\ pc' = "analyze_call"
               /\ local' = [resume_text |-> extracted.text,
                            job_description |-> job_description,
                            prompt |-> get_resume_analysis_prompt(extracted.text,
                                                                  job_description)]
               /\ UNCHANGED <<session, page>>
          ELSE /\ page' = Render(session, "extract", NoReply)
               /\ UNCHANGED <<session, pc, local>>
    /\ delivered' = NoDocument
    /\ uploader_notice' = "none"
    /\ UNCHANGED <<uploaded_file, job_description, chat_input, profile>>

\* Lines 97-103 with line 103 moved before the call: a call that raises has
\* already emptied the chat history.
AnalyzeReturn_ClearsFirst ==
    /\ pc = "analyze_call"
    /\ \E r \in call_groq_chat(local.prompt) :
          IF r.ok
          THEN /\ session' = StoreAnalysis(session, local.resume_text,
                                           local.job_description, r.content)
               /\ page' = Render(session', "end", NoReply)
          ELSE /\ session' = [session EXCEPT !.chat_history = <<>>]
               /\ page' = Render(session, "analyze_call", NoReply)
    /\ pc' = "ready"
    /\ local' = NoLocal
    /\ uploader_notice' = "none"
    /\ delivered' = NoDocument
    /\ UNCHANGED <<uploaded_file, job_description, chat_input, profile>>

\* The call of line 97 ends in one of `outcomes`: it returns or raises; then lines
\* 100-103 and the rest of the script.
AnalyzeReturns(outcomes) ==
    /\ pc = "analyze_call"
    /\ \E r \in outcomes :
          IF r.ok
          THEN /\ session' = StoreAnalysis(session, local.resume_text,
                                           local.job_description, r.content)
               /\ page' = Render(session', "end", NoReply)
          ELSE /\ session' = session
               /\ page' = Render(session, "analyze_call", NoReply)
    /\ pc' = "ready"
    /\ local' = NoLocal
    /\ uploader_notice' = "none"
    /\ delivered' = NoDocument
    /\ UNCHANGED <<uploaded_file, job_description, chat_input, profile>>

AnalyzeReturn == AnalyzeReturns(call_groq_chat(local.prompt))

\* The feedback's download button (lines 116-122): the browser gets the buffer and
\* the script re-runs.
DownloadFeedback ==
    /\ pc = "ready"
    /\ page.feedback_pdf # NoDocument
    /\ delivered' = page.feedback_pdf
    /\ Rerun
    /\ uploader_notice' = "none"
    /\ UNCHANGED <<uploaded_file, job_description, chat_input, profile>>

----------------------------------------------------------------------------
\* Tab 1: Send (lines 128-149)

Send ==
    /\ pc = "ready"
    /\ page.chat
    /\ IF Truthy(chat_input)
       THEN /\ Len(session.chat_history) < MaxChat
            /\ pc' = "chat_call"
            /\ local' = [NoLocal EXCEPT !.prompt =
                             get_chat_prompt(session.resume_text, session.job_description,
                                             session.analysis.text, chat_input)]
            /\ UNCHANGED <<session, page>>
       ELSE Rerun
    /\ delivered' = NoDocument
    /\ uploader_notice' = "none"
    /\ UNCHANGED <<uploaded_file, job_description, chat_input, profile>>

SendReturn ==
    /\ pc = "chat_call"
    /\ \E r \in call_groq_chat(local.prompt) :
          IF r.ok
          THEN /\ session' = AppendChat(session, chat_input, r.content)
               /\ page' = Render(session', "end", NoReply)
          ELSE /\ session' = session
               /\ page' = Render(session, "chat_call", NoReply)
    /\ pc' = "ready"
    /\ local' = NoLocal
    /\ delivered' = NoDocument
    /\ uploader_notice' = "none"
    /\ UNCHANGED <<uploaded_file, job_description, chat_input, profile>>

----------------------------------------------------------------------------
\* Tab 2: Generate Resume (lines 158-190)

\* Lines 169-176.
user_info(p) ==
    [name |-> p.name, email |-> p.email, phone |-> p.phone, skills |-> p.skills,
     experience |-> p.experience, education |-> p.education]

GenerateResume ==
    /\ pc = "ready"
    /\ page.generate_tab
    /\ pc' = "gen_call"
    /\ local' = [NoLocal EXCEPT !.prompt =
                     get_resume_gen_prompt(user_info(profile), profile.job_role)]
    /\ delivered' = NoDocument
    /\ uploader_notice' = "none"
    /\ UNCHANGED <<uploaded_file, job_description, chat_input, profile, session, page>>

GenerateReturn ==
    /\ pc = "gen_call"
    /\ \E r \in call_groq_chat(local.prompt) :
          IF r.ok
          THEN page' = Render(session, "end", r.content)
          ELSE page' = Render(session, "gen_call", NoReply)
    /\ pc' = "ready"
    /\ local' = NoLocal
    /\ delivered' = NoDocument
    /\ uploader_notice' = "none"
    /\ UNCHANGED <<uploaded_file, job_description, chat_input, profile, session>>

DownloadResume ==
    /\ pc = "ready"
    /\ page.resume_pdf # NoDocument
    /\ delivered' = page.resume_pdf
    /\ Rerun
    /\ uploader_notice' = "none"
    /\ UNCHANGED <<uploaded_file, job_description, chat_input, profile>>

----------------------------------------------------------------------------
Next ==
    \/ \E file \in Files : OfferFile(file)
    \/ RemoveFile
    \/ \E jd \in JobDescriptions : EditJobDescription(jd)
    \/ \E question \in Questions : EditChatInput(question)
    \/ \E p \in Profiles : EditProfile(p)
    \/ AnalyzeNow
    \/ AnalyzeReturn
    \/ DownloadFeedback
    \/ Send
    \/ SendReturn
    \/ GenerateResume
    \/ GenerateReturn
    \/ DownloadResume

Spec == Init /\ [][Next]_vars

----------------------------------------------------------------------------
\* The score pattern on every short text: an Analyze commit waits for its result,
\* and the model may answer with any text over ScoreAlphabet of at most MaxTextLen
\* characters; the page is then re-run and exported from.

MaxTextLen == 5

ScoreAlphabet == {"0", "1", "5", "/", " ", "x"}

ScoreTexts == UNION { [1..n -> ScoreAlphabet] : n \in 0..MaxTextLen }

ScoreFile == [suffix |-> ".docx", payload |-> "docx", parts |-> <<"d1", "">>]

\* The state of Spec after the file is uploaded, the job description typed and
\* Analyze Now pressed.
ScoreInit ==
    /\ uploaded_file = ScoreFile
    /\ job_description = "J1"
    /\ chat_input = ""
    /\ profile \in { p \in Profiles : p.name = "" }
    /\ session = EmptySession
    /\ pc = "analyze_call"
    /\ local = [resume_text |-> Extract(ScoreFile).text,
                job_description |-> "J1",
                prompt |-> get_resume_analysis_prompt(Extract(ScoreFile).text, "J1")]
    /\ page = Render(EmptySession, "end", NoReply)
    /\ uploader_notice = "none"
    /\ delivered = NoDocument

ScoreReturn ==
    AnalyzeReturns({ [ok |-> TRUE, content |-> [prompt |-> local.prompt, text |-> t]] :
                       t \in ScoreTexts })

ScoreNext ==
    \/ ScoreReturn
    \/ \E jd \in JobDescriptions : EditJobDescription(jd)
    \/ DownloadFeedback

ScoreSpec == ScoreInit /\ [][ScoreNext]_vars

----------------------------------------------------------------------------
\* Steps, as the properties below name them

\* The extractor raised in this step.
ExtractionFails == pc = "ready" /\ page' # page /\ page'.error = "ExtractionError"

\* The Analyze click whose extractor returned: the script now waits in line 97.
AnalyzeCallStarts == pc = "ready" /\ pc' = "analyze_call"

AnalyzeCallFails ==
    pc = "analyze_call" /\ pc' = "ready" /\ page'.error = "GenerationServiceError"

AnalyzeCallSucceeds ==
    pc = "analyze_call" /\ pc' = "ready" /\ page'.error # "GenerationServiceError"

SendCallStarts == pc = "ready" /\ pc' = "chat_call"

SendCallFails ==
    pc = "chat_call" /\ pc' = "ready" /\ page'.error = "GenerationServiceError"

SendCallSucceeds ==
    pc = "chat_call" /\ pc' = "ready" /\ page'.error # "GenerationServiceError"

IsPrefix(s, t) == Len(s) <= Len(t) /\ SubSeq(t, 1, Len(s)) = s

----------------------------------------------------------------------------
\* C1: a failing action leaves the Session untouched.  From the click of Analyze
\* Now or Send to the step in which the extractor or the generation call fails,
\* no step changes resume_text, job_description, analysis or chat_history (nor
\* the set of keys present).
C1_FailureKeepsSession ==
    [][ (ExtractionFails \/ AnalyzeCallStarts \/ AnalyzeCallFails
           \/ SendCallStarts \/ SendCallFails)
        => session' = session ]_vars

\* A generation call of a second analysis has failed (the page ends at the
\* exception, before the results), and the earlier analysis and its chat history
\* are still stored.
C1_Witness ==
    /\ pc = "ready"
    /\ page.error = "GenerationServiceError"
    /\ ~page.review_shown
    /\ "analysis" \in session.present
    /\ session.chat_history # <<>>

\* C2: a new analysis clears the chat history before the next chat turn.  The step
\* in which an analysis is stored leaves chat_history empty, and in every state
\* each stored pair answers a chat prompt built from the stored resume_text,
\* job_description and analysis and from the pair's own question, and the page
\* lists no pair but the stored ones: no pair recorded against an earlier
\* analysis is ever held or displayed.
C2_ChatBelongsToAnalysis ==
    /\ [](\A i \in 1..Len(session.chat_history) :
            session.chat_history[i][2].prompt =
                get_chat_prompt(session.resume_text, session.job_description,
                                session.analysis.text, session.chat_history[i][1]))
    /\ [](page.history \in {<<>>, reversed(session.chat_history)})
    /\ [][AnalyzeCallSucceeds => session'.chat_history = <<>> /\ page'.history = <<>>]_vars

\* An analysis is stored, its chat history is empty, and a chat turn is possible:
\* the chat section is on the page with a question typed in.
C2_Witness ==
    /\ pc = "ready"
    /\ "analysis" \in session.present
    /\ session.chat_history = <<>>
    /\ page.chat
    /\ Truthy(chat_input)
    /\ page.error = "none"

\* C3 as stated: between the extraction and the arrival of the new result no
\* earlier analysis or chat history is held in the Session.
C3_AsStated ==
    pc = "analyze_call" =>
        "analysis" \notin session.present /\ session.chat_history = <<>>

\* C3, amended: the discard belongs to the arrival of the new result.  The only
\* step that replaces the stored analysis or removes chat pairs is the one in which
\* the generation call of an Analyze commit returns; it stores the commit's
\* resume text, job description and result and empties the chat history.  The
\* extraction step changes nothing in the Session.
C3_DiscardOnResult ==
    [][ /\ AnalyzeCallStarts => session' = session
        /\ (session'.analysis # session.analysis
               \/ ~IsPrefix(session.chat_history, session'.chat_history))
            => /\ AnalyzeCallSucceeds
               /\ session'.present =
                      {"resume_text", "job_description", "analysis", "chat_history"}
               /\ session'.resume_text = local.resume_text
               /\ session'.job_description = local.job_description
               /\ session'.analysis.prompt = local.prompt
               /\ session'.chat_history = <<>> ]_vars

\* Analyze was triggered again from ChatActive: the extractor has run, the script
\* waits for the new result, and the earlier analysis and chat are still held.
C3_Witness ==
    /\ pc = "analyze_call"
    /\ "analysis" \in session.present
    /\ session.chat_history # <<>>
    /\ local.resume_text # session.resume_text

\* C4: chat_history is append-only.  A call is made only for a non-empty question;
\* the step in which it returns appends exactly one pair, the question and the
\* answer to the prompt sent, after the pairs already there; and a step that
\* changes chat_history in any other way is the arrival of a new analysis.
C4_AppendOnly ==
    [][ /\ SendCallStarts => Truthy(chat_input) /\ session' = session
        /\ SendCallSucceeds =>
              /\ Len(session'.chat_history) = Len(session.chat_history) + 1
              /\ IsPrefix(session.chat_history, session'.chat_history)
              /\ session'.chat_history[Len(session'.chat_history)][1] = chat_input
              /\ session'.chat_history[Len(session'.chat_history)][2].prompt = local.prompt
        /\ (pc = "ready" /\ pc' = "ready" /\ ~Truthy(chat_input))
              => session'.chat_history = session.chat_history
        /\ session'.chat_history # session.chat_history
              => SendCallSucceeds \/ (AnalyzeCallSucceeds /\ session'.chat_history = <<>>) ]_vars

\* Two turns with different questions are stored, the older first.
C4_Witness ==
    /\ Len(session.chat_history) = 2
    /\ session.chat_history[1][1] # session.chat_history[2][1]
    /\ pc = "ready"
    /\ page.history = reversed(session.chat_history)

----------------------------------------------------------------------------
\* The numbers that immediately precede "/100" in a text: for each "/100" with a
\* digit before it, the whole run of digits that ends there.
NumbersBeforeSlash100(text) ==
    { int(SubSeq(text, i, j - 1)) :
        <<i, j>> \in { <<a, b>> \in (1..Len(text)) \X (1..Len(text)) :
                          /\ a < b
                          /\ text[b] = "/" /\ Literal100(text, b + 1)
                          /\ \A d \in a..(b - 1) : text[d] \in Digits
                          /\ CharAt(text, a - 1) \notin Digits } }

\* C5 as stated: a score is parsed from the analysis exactly when the text holds a
\* number immediately before "/100", and the score is that number; a text with no
\* such number gives no score.
C5_AsStated ==
    "analysis" \in session.present =>
        LET text == session.analysis.text
            m    == re_search(text)
        IN /\ m.found <=> NumbersBeforeSlash100(text) # {}
           /\ m.found => m.score \in NumbersBeforeSlash100(text)

\* C6 as stated: wherever an analysis is stored and the page is at rest, the
\* feedback's export is on the page, and the step that performs it changes nothing
\* in the Session and leaves the results and the chat on the page.
C6_AsStated ==
    /\ []("analysis" \in session.present /\ pc = "ready"
             => page.feedback_pdf # NoDocument)
    /\ [][delivered'.file_name = "resume_feedback.pdf"
             => /\ session' = session
                /\ delivered'.data = generate_pdf(session.analysis.text)
                /\ page'.review_shown /\ page'.chat
                /\ page'.feedback_pdf = page.feedback_pdf]_vars

\* The kinds the program supports, by the file's name.
SupportedKind(file) == file.suffix \in {".pdf", ".docx"}

\* The texts the extractors return for the files of a supported kind.
SupportedTexts == { Extract(f).text : f \in { g \in Files : SupportedKind(g) /\ Extract(g).ok } }

C8_AsStated ==
    [][ /\ (pc' = "gen_call" \/ pc = "gen_call"
               \/ delivered'.file_name = "generated_resume.pdf")
            => session' = session
        /\ (ExtractionFails \/ pc' \in {"analyze_call", "chat_call"}
               \/ pc \in {"analyze_call", "chat_call"})
            => /\ page'.resume_output = page.resume_output
               /\ page'.resume_pdf = page.resume_pdf ]_vars

\* C9: the four session fields are set all or none, and the stored resume_text,
\* job_description and analysis come from one Analyze commit: the analysis answers
\* the analysis prompt built from exactly the stored resume text and the stored
\* job description, whatever the input widgets hold now.
C9_OneCommit ==
    /\ session.present \in
           { {}, {"resume_text", "job_description", "analysis", "chat_history"} }
    /\ "analysis" \in session.present =>
           /\ session.analysis.prompt =
                  get_resume_analysis_prompt(session.resume_text, session.job_description)
           /\ Truthy(session.job_description)
           /\ \E f \in Files : Extract(f).ok /\ Extract(f).text = session.resume_text

\* An analysis is stored and a chat turn taken, and both input widgets have been
\* changed since the commit.
C9_Witness ==
    /\ pc = "ready"
    /\ "analysis" \in session.present
    /\ session.chat_history # <<>>
    /\ job_description # session.job_description
    /\ uploaded_file # NoFile
    /\ Extract(uploaded_file).ok
    /\ Extract(uploaded_file).text # session.resume_text

\* C10 as stated: a displayed score lies in 0..100, and whatever the analysis
\* text, the score step does not fail: where the review is on the page, so are the
\* export button and the chat section.
C10_AsStated ==
    page.review_shown =>
        /\ page.score.found => page.score.score \in 0..100
        /\ page.error # "StreamlitAPIException"
        /\ page.feedback_pdf # NoDocument
        /\ page.chat

====
